---- MODULE Spec2Model ----
(***************************************************************************)
(* Fail-safe return controller of the delivery car (ATmega32).             *)
(*                                                                         *)
(* Three execution contexts share the state: the UART receive interrupt    *)
(* (__vector_13 -> UART_Get_Cmd / UART_Get_LCD_msg), the TIMER0 overflow   *)
(* interrupt (__vector_11 -> Check_Connection / Back_Reverse) and the main *)
(* loop (Obstacle_Detection).  Interrupt handlers are `signal' handlers:   *)
(* they run with interrupts disabled, so each one is a single action.  The *)
(* main loop can be interrupted between any two statements: SpecIrq takes  *)
(* Obstacle_Detection one statement at a time with a program counter, Spec *)
(* takes each poll of it as one step.  obs is history only: no program     *)
(* variable reads it; the bounds on received bytes do.                     *)
(***************************************************************************)
EXTENDS Integers, Sequences, FiniteSets, TLC

(* ----------------------------- command bytes ---------------------------- *)
NOTHING == 48
FORWARD == 49
BACKWARD == 50
STOP == 51
STEER_RIGHT == 52
STEER_LEFT == 53
GEARUP == 54
GEARDOWN == 55
CLR_SCREEN == 56
SEND_LCD == 57
UART_STOPCHAR == 58
REVERSE == 59
BUZZER_ON == 111
BUZZER_OFF == 102
\* a character of an LCD message, 'x'
TextByte == 120

MAX_GEAR == 5
MIN_GEAR == 1
MAX_MOVES == 300
LCD_MSG_SIZE == 34
\* APP.c:27 -- char uart_rx_buffer[34]; APP.c:233, 453 -- size of a command
RX_BUFFER_SIZE == 34
CMD_SIZE == 1
OBSTACLE_CM == 10
SPEED_STEP == 51

(* --------------------------- integer widths ----------------------------- *)
Uint8 == 256
Uint16 == 65536
ModeBits == 8
GearBits == 8

(* ------------------------- MOTOR_def.h codes ---------------------------- *)
MOTOR_FORWARD == 0
MOTOR_BACKWARD == 1
MOTOR_STOP == 2
MOTOR_TURN_RIGHT == 3
MOTOR_TURN_LEFT == 4

(* ------------------------------ bounds ---------------------------------- *)
\* bytes received per boot, in Spec and SpecIrq
MaxRx == 2
\* bytes received per boot on a clear road, in SpecDrive
MaxDriveRx == 3
\* bytes received per boot when the stack is filled, in SpecFill
MaxFillRx == 302
\* bytes received per boot when the gears are run through, in SpecGear
MaxGearRx == 6
\* bytes received per boot when the display and the buzzer are used, in SpecScreen
MaxScreenRx == 3
\* bytes received per boot when display messages are sent, in SpecMsg: SEND_LCD,
\* a message of LCD_MSG_SIZE bytes and the byte after it
MaxMsgRx == 36
\* bytes received per boot while the guard runs statement by statement, in SpecPause
MaxPauseRx == 2
\* TIMER0 ticks that pass in one Tick step
TickStep == 128
\* heartbeat window of Check_Connection, in overflows, and its TCNT0 preload:
\* TIMER0_Calc_ISR_Timing_ms( 5000 , &ovfCounts , &tcnt ) derives them from the
\* clock and prescaler; the model scales the window down to a few overflows
WindowOvfs == 2
WindowTcnt == 128
\* overflows the model lets pass in Remote mode since the last TIMER0_RESET
MaxIdleOvfs == WindowOvfs + 1
\* distance samples of the two ultrasonic sensors, in cm
Distances == {OBSTACLE_CM - 1, OBSTACLE_CM}

MotionBytes == {FORWARD, BACKWARD, STOP, STEER_RIGHT, STEER_LEFT}
GearBytes == {GEARUP, GEARDOWN}
PlainBytes == {NOTHING, BUZZER_ON, TextByte}
MessageBytes == {TextByte, UART_STOPCHAR}
ScreenBytes == {CLR_SCREEN, BUZZER_ON, BUZZER_OFF}

VARIABLES
    gear, command, reversed_mode, tcnt, ovfCounts,
    front_blocked, back_blocked,
    car_connected, stack, top,
    ccCounter, brCounter,
    TCNT0, g_TIMER0_Overflow, timerOn, g_TIMER0_OVF_CallBack,
    rxEnabled, g_UART_RXCallBack, g_UART_RX_Index, isr,
    motor, OCR2, mcu, pc, obs

appVars == <<gear, command, reversed_mode, tcnt, ovfCounts, car_connected, stack, top>>
guardVars == <<front_blocked, back_blocked, pc>>
timerVars == <<TCNT0, g_TIMER0_Overflow, timerOn, g_TIMER0_OVF_CallBack, ccCounter, brCounter>>
uartVars == <<rxEnabled, g_UART_RXCallBack, g_UART_RX_Index, isr>>
vars == <<appVars, guardVars, timerVars, uartVars, motor, OCR2, mcu, obs>>

(* ------------------------------ records --------------------------------- *)
\* struct reverse: bit-fields mode:3, gear:3, ovfs:16, tcnt:8
MkRecord(m, g, o, t) ==
    [mode |-> m % ModeBits, gear |-> g % GearBits, ovfs |-> o % Uint16, tcnt |-> t % Uint8]

ZeroRecord == [mode |-> 0, gear |-> 0, ovfs |-> 0, tcnt |-> 0]

\* stack[] is kept as the sequence of the slots written so far; slot i is s[i+1]
StackRead(s, i) == IF i < Len(s) THEN s[i + 1] ELSE ZeroRecord

StackWrite(s, i, r) ==
    IF i < Len(s) THEN [s EXCEPT ![i + 1] = r]
    ELSE [k \in 1..(i + 1) |->
             IF k <= Len(s) THEN s[k] ELSE IF k = i + 1 THEN r ELSE ZeroRecord]

Running == mcu = "run"

\* variant: the handlers are declared so that they enable interrupts on entry
IrqNested == TRUE

\* UART.c:874 and TIMER0.c:567 -- the vectors are `signal' handlers: the I bit of
\* SREG, cleared by the hardware on entry, stays cleared until they return
IrqInHandler == FALSE

\* a handler can start: none is under way, or the one under way lets it in
IrqOpen == isr = "none" \/ IrqInHandler
Remote == g_TIMER0_OVF_CallBack = "Check_Connection"
Replaying == g_TIMER0_OVF_CallBack = "Back_Reverse"

(* ------------------------------- boot ----------------------------------- *)
ObsInit ==
    [rxCount |-> 0, motion |-> STOP, pushedFor |-> <<>>, pushes |-> 0,
     replayLog |-> <<>>, entryTop |-> 0, entries |-> 0,
     rxInWindow |-> FALSE, evalInfo |-> "none",
     legDur |-> 0, legTicks |-> 0, legOpen |-> FALSE, lastLeg |-> <<0, 0>>,
     frontWas |-> "none", backWas |-> "none",
     since |-> 0, actualFor |-> <<>>, wrote |-> <<>>, overrun |-> 0]

Init ==
    /\ gear = MIN_GEAR
    /\ command = STOP
    /\ reversed_mode = STOP
    /\ tcnt = WindowTcnt
    /\ ovfCounts = WindowOvfs
    /\ front_blocked = FALSE
    /\ back_blocked = FALSE
    /\ car_connected = TRUE
    /\ stack = <<>>
    /\ top = 0
    /\ ccCounter = 0
    /\ brCounter = 0
    /\ TCNT0 = 0
    /\ g_TIMER0_Overflow = 0
    /\ timerOn = TRUE
    /\ g_TIMER0_OVF_CallBack = "Check_Connection"
    /\ rxEnabled = TRUE
    /\ g_UART_RXCallBack = "UART_Get_Cmd"
    /\ g_UART_RX_Index = 0
    /\ isr = "none"
    /\ motor = "stop"
    /\ OCR2 = SPEED_STEP * MIN_GEAR
    /\ mcu = "run"
    /\ pc = "idle"
    /\ obs = ObsInit

(* ----------------------------- Save_Move -------------------------------- *)
\* APP.c:116 -- the guard of the push (top is a uint8, MAX_MOVES is 300)
SaveMovePushes(rm, t) == rm # STOP /\ t < MAX_MOVES

\* APP.c:118-121 -- the record written at stack[top]; tc is TIMER0_GetTimerValue()
StackAfterSave(g, tc) ==
    IF SaveMovePushes(reversed_mode, top)
    THEN StackWrite(stack, top, MkRecord(reversed_mode, g, g_TIMER0_Overflow, tc))
    ELSE stack

\* variant: top counted in a wider integer, with no capacity test
TopAfterSaveWide == IF reversed_mode # STOP THEN top + 1 ELSE top

\* APP.c:123 -- top++ on a uint8
TopAfterSave ==
    IF SaveMovePushes(reversed_mode, top) THEN (top + 1) % Uint8 ELSE top

\* APP.c:118-121 -- the four values Save_Move assigns, before they are packed
RawRecord(m, g, o, t) == [mode |-> m, gear |-> g, ovfs |-> o, tcnt |-> t]

\* history: the values assigned to each written slot
ObsWrote(o, g, tc) ==
    IF SaveMovePushes(reversed_mode, top)
    THEN [o EXCEPT !.wrote = StackWrite(@, top,
                                 RawRecord(reversed_mode, g, g_TIMER0_Overflow, tc))]
    ELSE o

\* history: how many Save_Move calls had a motion to record, which commanded
\* motion each written slot superseded and how many ticks TIMER0 had counted for
\* it; TIMER0_RESET starts the count again
ObsAfterSave(o) ==
    IF reversed_mode # STOP
    THEN [o EXCEPT !.pushes = @ + 1,
                   !.pushedFor = IF SaveMovePushes(reversed_mode, top)
                                 THEN StackWrite(@, top, o.motion)
                                 ELSE @,
                   !.actualFor = IF SaveMovePushes(reversed_mode, top)
                                 THEN StackWrite(@, top, o.since)
                                 ELSE @,
                   !.since = 0]
    ELSE [o EXCEPT !.since = 0]

(* ---------------------------- UART_Get_Cmd ------------------------------ *)
\* variant: the command itself is remembered, not its inverse
ReversedModeSame(b) == b

\* APP.c:141,148,155,162,169 -- reversed_mode remembered for each motion command
ReversedModeFor(b) ==
    CASE b = FORWARD -> BACKWARD
      [] b = BACKWARD -> FORWARD
      [] b = STOP -> STOP
      [] b = STEER_RIGHT -> STEER_LEFT
      [] b = STEER_LEFT -> STEER_RIGHT

\* APP.c:139,146,153,160,167 -- the MOTOR_* call of each motion command
MotorFor(b) ==
    CASE b = FORWARD -> "forward"
      [] b = BACKWARD -> "backward"
      [] b = STOP -> "stop"
      [] b = STEER_RIGHT -> "right"
      [] b = STEER_LEFT -> "left"

\* variant: a gear command changes the gear whatever the gear is
GearAlwaysChanges(b, g) == TRUE

\* APP.c:174,185 -- whether a gear command changes the gear
GearChanges(b, g) == IF b = GEARUP THEN g < MAX_GEAR ELSE g > MIN_GEAR

GearAfter(b, g) == IF b = GEARUP THEN g + 1 ELSE g - 1

\* TIMER2_SetCompareValue takes a uint8
SpeedFor(g) == (SPEED_STEP * g) % Uint8

\* __vector_13 in single-byte mode: the byte completes the read and is dispatched
CanReceive ==
    /\ Running
    /\ IrqOpen
    /\ rxEnabled

CanDispatch == CanReceive /\ g_UART_RXCallBack = "UART_Get_Cmd"

\* APP.c:131-132 -- every dispatched byte
ObsDispatch(o) == [o EXCEPT !.rxCount = @ + 1, !.rxInWindow = TRUE]

\* variant: the dispatch leaves the alive flag cleared
AliveNotSet == FALSE

AliveOnDispatch == TRUE

CmdMotion(b) ==
    /\ CanDispatch
    /\ b \in MotionBytes
    /\ command' = b
    /\ car_connected' = AliveOnDispatch
    /\ motor' = MotorFor(b)
    /\ stack' = StackAfterSave(gear, TCNT0)
    /\ top' = TopAfterSave
    /\ TCNT0' = 0
    /\ g_TIMER0_Overflow' = 0
    /\ reversed_mode' = ReversedModeFor(b)
    /\ obs' = [ObsDispatch(ObsAfterSave(ObsWrote(obs, gear, TCNT0))) EXCEPT !.motion = b]
    /\ UNCHANGED <<gear, tcnt, ovfCounts, guardVars, timerOn, g_TIMER0_OVF_CallBack,
                   ccCounter, brCounter, uartVars, OCR2, mcu>>

CmdGear(b) ==
    /\ CanDispatch
    /\ b \in GearBytes
    /\ command' = b
    /\ car_connected' = AliveOnDispatch
    /\ IF GearChanges(b, gear)
       THEN /\ gear' = GearAfter(b, gear)
            /\ OCR2' = SpeedFor(GearAfter(b, gear))
            /\ stack' = StackAfterSave(GearAfter(b, gear), TCNT0)
            /\ top' = TopAfterSave
            /\ TCNT0' = 0
            /\ g_TIMER0_Overflow' = 0
            /\ obs' = ObsDispatch(ObsAfterSave(ObsWrote(obs, GearAfter(b, gear), TCNT0)))
       ELSE /\ obs' = ObsDispatch(obs)
            /\ UNCHANGED <<gear, OCR2, stack, top, TCNT0, g_TIMER0_Overflow>>
    /\ UNCHANGED <<reversed_mode, tcnt, ovfCounts, guardVars, timerOn,
                   g_TIMER0_OVF_CallBack, ccCounter, brCounter, uartVars, motor, mcu>>

\* variant: the cases of the display and the buzzer save the move as well
TopAfterPlainSaved == TopAfterSave

\* APP.c:194-202 and 215-223 -- these cases call no Save_Move
TopAfterPlain == top

\* CLR_SCREEN, BUZZER_ON, BUZZER_OFF touch the LCD and the buzzer pin only; any
\* other byte matches no case of the switch
CmdPlain(b) ==
    /\ CanDispatch
    /\ b \in PlainBytes \cup ScreenBytes
    /\ command' = b
    /\ car_connected' = AliveOnDispatch
    /\ top' = TopAfterPlain
    /\ obs' = ObsDispatch(obs)
    /\ UNCHANGED <<gear, reversed_mode, tcnt, ovfCounts, stack, guardVars,
                   timerVars, uartVars, motor, OCR2, mcu>>

\* APP.c:199-202 -- switch the link to message mode
CmdSendLcd ==
    /\ CanDispatch
    /\ command' = SEND_LCD
    /\ car_connected' = AliveOnDispatch
    /\ g_UART_RXCallBack' = "UART_Get_LCD_msg"
    /\ g_UART_RX_Index' = 0
    /\ top' = TopAfterPlain
    /\ obs' = ObsDispatch(obs)
    /\ UNCHANGED <<gear, reversed_mode, tcnt, ovfCounts, stack, guardVars,
                   timerVars, rxEnabled, isr, motor, OCR2, mcu>>

\* APP.c:206-212 and 248-253 -- the entry into the replay, shared by both paths
\* variant: the entry leaves the receive interrupt enabled
RxStaysOn == TRUE

RxAfterEntry == FALSE

EntryCallBack == "Back_Reverse"

ObsEntry(o) ==
    [o EXCEPT !.entries = @ + 1, !.entryTop = TopAfterSave,
              !.legOpen = FALSE, !.legDur = 0, !.legTicks = 0]

CmdReverse ==
    /\ CanDispatch
    /\ command' = REVERSE
    /\ car_connected' = AliveOnDispatch
    /\ stack' = StackAfterSave(gear, TCNT0)
    /\ top' = TopAfterSave
    /\ g_TIMER0_Overflow' = 0
    /\ motor' = "stop"
    /\ rxEnabled' = RxAfterEntry
    /\ g_TIMER0_OVF_CallBack' = EntryCallBack
    /\ ovfCounts' = 0
    /\ TCNT0' = Uint8 - 1
    /\ obs' = ObsEntry(ObsDispatch(ObsAfterSave(ObsWrote(obs, gear, TCNT0))))
    /\ UNCHANGED <<gear, reversed_mode, tcnt, guardVars, timerOn, ccCounter, brCounter,
                   g_UART_RXCallBack, g_UART_RX_Index, isr, OCR2, mcu>>

\* The REVERSE case one statement at a time: isr is the statement of it that
\* ran last, "none" when no handler is under way.  TIMER0 keeps counting.
\* APP.c:131-132 and 206 -- the byte is dispatched and Save_Move runs
EntrySave ==
    /\ CanDispatch
    /\ isr = "none"
    /\ command' = REVERSE
    /\ car_connected' = AliveOnDispatch
    /\ stack' = StackAfterSave(gear, TCNT0)
    /\ top' = TopAfterSave
    /\ TCNT0' = 0
    /\ g_TIMER0_Overflow' = 0
    /\ isr' = "saved"
    /\ obs' = ObsDispatch(ObsAfterSave(ObsWrote(obs, gear, TCNT0)))
    /\ UNCHANGED <<gear, reversed_mode, tcnt, ovfCounts, guardVars, timerOn,
                   g_TIMER0_OVF_CallBack, ccCounter, brCounter, rxEnabled,
                   g_UART_RXCallBack, g_UART_RX_Index, motor, OCR2, mcu>>

\* APP.c:208 -- MOTOR_BothStop
EntryStop ==
    /\ Running
    /\ isr = "saved"
    /\ motor' = "stop"
    /\ isr' = "stopped"
    /\ UNCHANGED <<appVars, guardVars, timerVars, rxEnabled, g_UART_RXCallBack,
                   g_UART_RX_Index, OCR2, mcu, obs>>

\* APP.c:209 -- UART_InterruptDisable
EntryRxOff ==
    /\ Running
    /\ isr = "stopped"
    /\ rxEnabled' = RxAfterEntry
    /\ isr' = "rxOff"
    /\ UNCHANGED <<appVars, guardVars, timerVars, g_UART_RXCallBack,
                   g_UART_RX_Index, motor, OCR2, mcu, obs>>

\* APP.c:210 -- TIMER0_SetCallback
EntryBind ==
    /\ Running
    /\ isr = "rxOff"
    /\ g_TIMER0_OVF_CallBack' = EntryCallBack
    /\ isr' = "bound"
    /\ UNCHANGED <<appVars, guardVars, TCNT0, g_TIMER0_Overflow, timerOn, ccCounter,
                   brCounter, rxEnabled, g_UART_RXCallBack, g_UART_RX_Index,
                   motor, OCR2, mcu, obs>>

\* APP.c:211 -- ovfCounts = 0
EntryZero ==
    /\ Running
    /\ isr = "bound"
    /\ ovfCounts' = 0
    /\ isr' = "zeroed"
    /\ UNCHANGED <<gear, command, reversed_mode, tcnt, car_connected, stack, top,
                   guardVars, timerVars, rxEnabled, g_UART_RXCallBack,
                   g_UART_RX_Index, motor, OCR2, mcu, obs>>

\* APP.c:212 -- TIMER0_SetTimerValue( 255 ), and the handler returns
EntryPreload ==
    /\ Running
    /\ isr = "zeroed"
    /\ TCNT0' = Uint8 - 1
    /\ isr' = "none"
    /\ obs' = [obs EXCEPT !.entries = @ + 1, !.entryTop = top,
                          !.legOpen = FALSE, !.legDur = 0, !.legTicks = 0]
    /\ UNCHANGED <<appVars, guardVars, g_TIMER0_Overflow, timerOn,
                   g_TIMER0_OVF_CallBack, ccCounter, brCounter, rxEnabled,
                   g_UART_RXCallBack, g_UART_RX_Index, motor, OCR2, mcu>>

\* __vector_13 in message mode (UART.c:886-911) and UART_Get_LCD_msg (APP.c:229-235)
MessageEnds(i, b) == i >= LCD_MSG_SIZE \/ b = UART_STOPCHAR

\* UART.c:895-899 -- a stop byte is stored a second time, at the index after its
\* own; uart_rx_buffer has LCD_MSG_SIZE bytes (APP.c:27), so the second copy of a
\* stop byte that is byte LCD_MSG_SIZE of the message lands behind the buffer
WritesPastBuffer(i, b) == b = UART_STOPCHAR /\ i >= LCD_MSG_SIZE

\* What the byte behind uart_rx_buffer belongs to is the linker's choice among
\* the zero-initialised objects of the program: memory the controller never
\* reads again, back_blocked (APP.c:23), top (APP.c:31) or the low byte of the
\* receive callback pointer (UART.c:57)
PastBufferTargets == {"unused", "back_blocked", "top", "g_UART_RXCallBack"}

HitsBy(i, b) == IF WritesPastBuffer(i, b) THEN PastBufferTargets ELSE {"unused"}

\* history: the index of a store that landed behind uart_rx_buffer
ObsStored(o, i, b) ==
    [o EXCEPT !.rxCount = @ + 1,
              !.overrun = IF WritesPastBuffer(i, b) THEN i ELSE @]

RxMessageByte(b) ==
    /\ CanReceive
    /\ g_UART_RXCallBack = "UART_Get_LCD_msg"
    /\ b \in MessageBytes
    /\ LET i == g_UART_RX_Index + 1 IN
       IF MessageEnds(i, b)
       THEN \E hit \in HitsBy(i, b) :
               /\ g_UART_RX_Index' = 0
               /\ top' = IF hit = "top" THEN UART_STOPCHAR % Uint8 ELSE top
               /\ back_blocked' = IF hit = "back_blocked" THEN TRUE ELSE back_blocked
               /\ IF hit = "g_UART_RXCallBack"
                  THEN \* the call at UART.c:909 goes through the damaged pointer
                       /\ g_UART_RXCallBack' = "undefined"
                       /\ mcu' = "lost"
                       /\ UNCHANGED car_connected
                  ELSE /\ g_UART_RXCallBack' = "UART_Get_Cmd"
                       /\ car_connected' = TRUE
                       /\ mcu' = mcu
       ELSE /\ g_UART_RX_Index' = i
            /\ UNCHANGED <<g_UART_RXCallBack, car_connected, top, back_blocked, mcu>>
    /\ obs' = ObsStored(obs, g_UART_RX_Index + 1, b)
    /\ UNCHANGED <<gear, command, reversed_mode, tcnt, ovfCounts, stack,
                   front_blocked, pc, timerVars, rxEnabled, isr, motor, OCR2>>


(* -------------------------------- TIMER0 -------------------------------- *)
\* history: ticks counted by TIMER0 during the replay leg that is being driven,
\* and in Remote mode since the last TIMER0_RESET
ObsTicks(o, n) ==
    IF o.legOpen THEN [o EXCEPT !.legTicks = @ + n]
    ELSE IF Remote THEN [o EXCEPT !.since = @ + n]
    ELSE o

\* TCNT0 counts TickStep ticks without overflowing
Tick ==
    /\ Running
    /\ timerOn
    /\ TCNT0 + TickStep < Uint8
    /\ Remote => g_TIMER0_Overflow < MaxIdleOvfs
    /\ TCNT0' = TCNT0 + TickStep
    /\ obs' = ObsTicks(obs, TickStep)
    /\ UNCHANGED <<appVars, guardVars, g_TIMER0_Overflow, timerOn, g_TIMER0_OVF_CallBack,
                   ccCounter, brCounter, uartVars, motor, OCR2, mcu>>

\* TIMER0.c:583 -- g_TIMER0_Overflow++ after the callback returned
CountOverflow(n) == (n + 1) % Uint16

(* --------------------------- Check_Connection --------------------------- *)
\* APP.c:241 -- the window ends
WindowEnds(c, target) == c >= target

\* APP.c:246
LinkLost(alive) == alive = FALSE

\* APP.c:256-263 -- the alive flag left for the next window
AliveAfterEval(cmd) == IF cmd = STOP \/ cmd = SEND_LCD THEN TRUE ELSE FALSE

ObsEval(o, lost) ==
    [o EXCEPT !.rxInWindow = FALSE,
              !.evalInfo = IF o.rxInWindow
                           THEN (IF lost THEN "busyLost" ELSE "busyKept")
                           ELSE (IF lost THEN "quietLost" ELSE "quietKept")]

\* TCNT0 wraps, __vector_11 runs Check_Connection, then counts the overflow
OvfCheckConnection ==
    /\ Running
    /\ IrqOpen
    /\ timerOn
    /\ Remote
    /\ g_TIMER0_Overflow < MaxIdleOvfs
    /\ LET c == (ccCounter + 1) % Uint16 IN
       IF WindowEnds(c, ovfCounts)
       THEN /\ ccCounter' = 0
            /\ IF LinkLost(car_connected)
               THEN /\ stack' = StackAfterSave(gear, tcnt)
                    /\ top' = TopAfterSave
                    /\ motor' = "stop"
                    /\ rxEnabled' = RxAfterEntry
                    /\ g_TIMER0_OVF_CallBack' = EntryCallBack
                    /\ ovfCounts' = 0
                    /\ TCNT0' = Uint8 - 1
                    /\ command' = REVERSE
                    /\ g_TIMER0_Overflow' = CountOverflow(0)
                    /\ obs' = ObsEntry(ObsEval(ObsAfterSave(
                                  ObsWrote(ObsTicks(obs, Uint8 - TCNT0), gear, tcnt)), TRUE))
                    /\ UNCHANGED car_connected
               ELSE /\ car_connected' = AliveAfterEval(command)
                    /\ TCNT0' = tcnt
                    /\ g_TIMER0_Overflow' = CountOverflow(g_TIMER0_Overflow)
                    /\ obs' = ObsEval(ObsTicks(obs, Uint8 - TCNT0), FALSE)
                    /\ UNCHANGED <<stack, top, motor, rxEnabled, g_TIMER0_OVF_CallBack,
                                   ovfCounts, command>>
       ELSE /\ ccCounter' = c
            /\ TCNT0' = 0
            /\ g_TIMER0_Overflow' = CountOverflow(g_TIMER0_Overflow)
            /\ obs' = ObsTicks(obs, Uint8 - TCNT0)
            /\ UNCHANGED <<stack, top, motor, rxEnabled, g_TIMER0_OVF_CallBack,
                           ovfCounts, command, car_connected>>
    /\ UNCHANGED <<gear, reversed_mode, tcnt, guardVars, timerOn, brCounter,
                   g_UART_RXCallBack, g_UART_RX_Index, isr, OCR2, mcu>>

(* ----------------------------- Back_Reverse ----------------------------- *)
\* MOTOR.c:266-297 -- MOTOR_SET_Direction
MotorSetDirection(d) ==
    IF d = MOTOR_FORWARD THEN "forward"
    ELSE IF d = MOTOR_BACKWARD THEN "backward"
    ELSE IF d = MOTOR_TURN_RIGHT THEN "right"
    ELSE IF d = MOTOR_TURN_LEFT THEN "left"
    ELSE "stop"

\* APP.c:93 -- the step waits for more overflows
StepWaits(c, budget) == c < budget

\* variant: the replay ends one record early
StackNearlyEmpty(t) == t <= 1

\* APP.c:96 -- the replay step finds the stack empty
StackEmpty(t) == t = 0

\* APP.c:105 -- the popped record is loaded and driven
ReplayApplies(rm) == rm # STOP

\* the duration a record states, in ticks
RecordTicks(r) == r.ovfs * Uint8 + r.tcnt

ObsFire(o, n) ==
    IF o.legOpen THEN [o EXCEPT !.lastLeg = <<o.legDur, o.legTicks + n>>] ELSE o

ObsPop(o, i, r, applied) ==
    IF applied
    THEN [o EXCEPT !.replayLog = Append(@, i), !.legOpen = TRUE,
                   !.legDur = RecordTicks(r), !.legTicks = 0]
    ELSE [o EXCEPT !.legOpen = FALSE, !.legDur = 0, !.legTicks = 0]

\* TCNT0 wraps, __vector_11 runs Back_Reverse, then counts the overflow
OvfBackReverse ==
    /\ Running
    /\ IrqOpen
    /\ timerOn
    /\ Replaying
    /\ LET c == (brCounter + 1) % Uint16
           elapsed == Uint8 - TCNT0
           r == StackRead(stack, top - 1)
       IN
       IF StepWaits(c, ovfCounts)
       THEN /\ brCounter' = c
            /\ TCNT0' = 0
            /\ g_TIMER0_Overflow' = CountOverflow(g_TIMER0_Overflow)
            /\ obs' = ObsTicks(obs, elapsed)
            /\ UNCHANGED <<top, ovfCounts, OCR2, motor, mcu>>
       ELSE /\ brCounter' = 0
            /\ IF StackEmpty(top)
               THEN /\ motor' = "stop"
                    /\ mcu' = "reset"
                    /\ TCNT0' = 0
                    /\ obs' = ObsFire(obs, elapsed)
                    /\ UNCHANGED <<top, ovfCounts, OCR2, g_TIMER0_Overflow>>
               ELSE /\ top' = (top - 1) % Uint8
                    /\ g_TIMER0_Overflow' = CountOverflow(g_TIMER0_Overflow)
                    /\ obs' = ObsPop(ObsFire(obs, elapsed), top - 1, r,
                                     ReplayApplies(reversed_mode))
                    /\ mcu' = mcu
                    /\ IF ReplayApplies(reversed_mode)
                       THEN /\ ovfCounts' = r.ovfs
                            /\ TCNT0' = r.tcnt
                            /\ OCR2' = SpeedFor(r.gear)
                            /\ motor' = MotorSetDirection(r.mode)
                       ELSE /\ TCNT0' = 0
                            /\ UNCHANGED <<ovfCounts, OCR2, motor>>
    /\ UNCHANGED <<gear, command, reversed_mode, tcnt, car_connected, stack, guardVars,
                   timerOn, g_TIMER0_OVF_CallBack, ccCounter, uartVars>>


(* -------------------------- Obstacle_Detection -------------------------- *)
\* APP.c:375 and 391 -- the direction test of each sensor
FrontPauses(cmd, rm, d) ==
    (cmd = FORWARD \/ (cmd = REVERSE /\ rm = FORWARD)) /\ d < OBSTACLE_CM

BackPauses(cmd, rm, d) ==
    (cmd = BACKWARD \/ (cmd = REVERSE /\ rm = BACKWARD)) /\ d < OBSTACLE_CM

\* APP.c:384 and 400
Resumes(blocked, d) == blocked /\ d >= OBSTACLE_CM

\* APP.c:386 and 402 -- the motion re-applied on resume
ResumeMotor(side) == IF side = "front" THEN "forward" ELSE "backward"

\* APP.c:380,396 and 387,403 -- the TIMER0 clock after TIMER0_Disable / TIMER0_Enable
\* variant: the resume leaves the TIMER0 clock stopped
ClockStaysOff == FALSE

ClockAfterDisable == FALSE

ClockAfterEnable == TRUE

\* variant: the resume starts the count of TIMER0 again
CountRestarted(t) == 0

\* TIMER0.c:210-218 -- TIMER0_Enable writes the clock select bits of TCCR0 only:
\* TCNT0 keeps the count it had when the clock was stopped
CountAfterEnable(t) == t

GuardRuns == Running /\ isr = "none"

\* history: the motion the actuator was driving when the guard paused a side,
\* kept until the guard resumes that side
ObsBranch(o, br, m) ==
    IF br = "fStop" THEN [o EXCEPT !.frontWas = m]
    ELSE IF br = "bStop" THEN [o EXCEPT !.backWas = m]
    ELSE IF br = "fDrive" THEN [o EXCEPT !.frontWas = "none"]
    ELSE IF br = "bDrive" THEN [o EXCEPT !.backWas = "none"]
    ELSE o

\* APP.c:372-384 -- the front sensor is read and tested.  The sample is an input
\* that no program state bounds, so reading it at 372 and testing it at 375 is
\* the same as drawing it when the test runs; pc = "idle" is the top of the loop.
FrontBranch(d) ==
    IF FrontPauses(command, reversed_mode, d)
    THEN (IF ~front_blocked THEN "fStop" ELSE "back")
    ELSE (IF Resumes(front_blocked, d) THEN "fDrive" ELSE "back")

GuardTestFront(d) ==
    /\ GuardRuns
    /\ pc = "idle"
    /\ pc' = FrontBranch(d)
    /\ UNCHANGED <<appVars, front_blocked, back_blocked,
                   timerVars, uartVars, motor, OCR2, mcu, obs>>

\* APP.c:373 and 391-400 -- the back sensor is read and tested
BackBranch(d) ==
    IF BackPauses(command, reversed_mode, d)
    THEN (IF ~back_blocked THEN "bStop" ELSE "idle")
    ELSE (IF Resumes(back_blocked, d) THEN "bDrive" ELSE "idle")

GuardTestBack(d) ==
    /\ GuardRuns
    /\ pc = "back"
    /\ pc' = BackBranch(d)
    /\ UNCHANGED <<appVars, front_blocked, back_blocked,
                   timerVars, uartVars, motor, OCR2, mcu, obs>>

\* APP.c:379 and 395 -- MOTOR_BothStop
GuardStop ==
    /\ GuardRuns
    /\ pc \in {"fStop", "bStop"}
    /\ motor' = "stop"
    /\ pc' = IF pc = "fStop" THEN "fOff" ELSE "bOff"
    /\ obs' = ObsBranch(obs, pc, motor)
    /\ UNCHANGED <<appVars, front_blocked, back_blocked,
                   timerVars, uartVars, OCR2, mcu>>

\* APP.c:380 and 396 -- TIMER0_Disable
GuardTimerOff ==
    /\ GuardRuns
    /\ pc \in {"fOff", "bOff"}
    /\ timerOn' = ClockAfterDisable
    /\ pc' = IF pc = "fOff" THEN "fSet" ELSE "bSet"
    /\ UNCHANGED <<appVars, front_blocked, back_blocked,
                   TCNT0, g_TIMER0_Overflow, g_TIMER0_OVF_CallBack, ccCounter, brCounter,
                   uartVars, motor, OCR2, mcu, obs>>

\* APP.c:381 and 397
GuardSetFlag ==
    /\ GuardRuns
    /\ pc \in {"fSet", "bSet"}
    /\ IF pc = "fSet"
       THEN front_blocked' = TRUE /\ pc' = "back" /\ UNCHANGED back_blocked
       ELSE back_blocked' = TRUE /\ pc' = "idle" /\ UNCHANGED front_blocked
    /\ UNCHANGED <<appVars, timerVars, uartVars,
                   motor, OCR2, mcu, obs>>

\* APP.c:386 and 402 -- MOTOR_BothForward / MOTOR_BothBackward
GuardDrive ==
    /\ GuardRuns
    /\ pc \in {"fDrive", "bDrive"}
    /\ motor' = ResumeMotor(IF pc = "fDrive" THEN "front" ELSE "back")
    /\ pc' = IF pc = "fDrive" THEN "fOn" ELSE "bOn"
    /\ obs' = ObsBranch(obs, pc, motor)
    /\ UNCHANGED <<appVars, front_blocked, back_blocked,
                   timerVars, uartVars, OCR2, mcu>>

\* APP.c:387 and 403 -- TIMER0_Enable
GuardTimerOn ==
    /\ GuardRuns
    /\ pc \in {"fOn", "bOn"}
    /\ timerOn' = ClockAfterEnable
    /\ TCNT0' = CountAfterEnable(TCNT0)
    /\ pc' = IF pc = "fOn" THEN "fClr" ELSE "bClr"
    /\ UNCHANGED <<appVars, front_blocked, back_blocked,
                   g_TIMER0_Overflow, g_TIMER0_OVF_CallBack, ccCounter, brCounter,
                   uartVars, motor, OCR2, mcu, obs>>

\* APP.c:388 and 404
GuardClearFlag ==
    /\ GuardRuns
    /\ pc \in {"fClr", "bClr"}
    /\ IF pc = "fClr"
       THEN front_blocked' = FALSE /\ pc' = "back" /\ UNCHANGED back_blocked
       ELSE back_blocked' = FALSE /\ pc' = "idle" /\ UNCHANGED front_blocked
    /\ UNCHANGED <<appVars, timerVars, uartVars,
                   motor, OCR2, mcu, obs>>

\* One whole poll (APP.c:370-406) run without an interrupt in between: the front
\* branch, then the back branch, each with the three statements of its path
MotorAfterBranch(br, m) ==
    IF br \in {"fStop", "bStop"} THEN "stop"
    ELSE IF br = "fDrive" THEN ResumeMotor("front")
    ELSE IF br = "bDrive" THEN ResumeMotor("back")
    ELSE m

ClockAfterBranch(br, on) ==
    IF br \in {"fStop", "bStop"} THEN ClockAfterDisable
    ELSE IF br \in {"fDrive", "bDrive"} THEN ClockAfterEnable
    ELSE on

CountAfterBranch(br, t) ==
    IF br \in {"fDrive", "bDrive"} THEN CountAfterEnable(t) ELSE t

FlagAfterBranch(br, flag) ==
    IF br \in {"fStop", "bStop"} THEN TRUE
    ELSE IF br \in {"fDrive", "bDrive"} THEN FALSE
    ELSE flag

GuardPoll(fd, bd) ==
    /\ GuardRuns
    /\ pc = "idle"
    /\ LET fb == FrontBranch(fd)
           bb == BackBranch(bd)
       IN
       /\ motor' = MotorAfterBranch(bb, MotorAfterBranch(fb, motor))
       /\ timerOn' = ClockAfterBranch(bb, ClockAfterBranch(fb, timerOn))
       /\ front_blocked' = FlagAfterBranch(fb, front_blocked)
       /\ back_blocked' = FlagAfterBranch(bb, back_blocked)
       /\ TCNT0' = CountAfterBranch(bb, CountAfterBranch(fb, TCNT0))
       /\ obs' = ObsBranch(ObsBranch(obs, fb, motor), bb, MotorAfterBranch(fb, motor))
    /\ UNCHANGED <<appVars, pc, g_TIMER0_Overflow, g_TIMER0_OVF_CallBack,
                   ccCounter, brCounter, uartVars, OCR2, mcu>>

(* ------------------------------- reset ---------------------------------- *)
\* WDT_RESET_MCU spins until the watchdog restarts the program: APP_Init runs again
Boot ==
    /\ mcu = "reset"
    /\ gear' = MIN_GEAR
    /\ command' = STOP
    /\ reversed_mode' = STOP
    /\ tcnt' = WindowTcnt
    /\ ovfCounts' = WindowOvfs
    /\ front_blocked' = FALSE
    /\ back_blocked' = FALSE
    /\ car_connected' = TRUE
    /\ stack' = <<>>
    /\ top' = 0
    /\ ccCounter' = 0
    /\ brCounter' = 0
    /\ TCNT0' = 0
    /\ g_TIMER0_Overflow' = 0
    /\ timerOn' = TRUE
    /\ g_TIMER0_OVF_CallBack' = "Check_Connection"
    /\ rxEnabled' = TRUE
    /\ g_UART_RXCallBack' = "UART_Get_Cmd"
    /\ g_UART_RX_Index' = 0
    /\ isr' = "none"
    /\ motor' = "stop"
    /\ OCR2' = SPEED_STEP * MIN_GEAR
    /\ mcu' = "run"
    /\ pc' = "idle"
    /\ obs' = ObsInit

(* --------------------------- specifications ----------------------------- *)
Receive ==
    /\ obs.rxCount < MaxRx
    /\ \/ \E b \in MotionBytes : CmdMotion(b)
       \/ \E b \in GearBytes : CmdGear(b)
       \/ \E b \in PlainBytes : CmdPlain(b)
       \/ CmdSendLcd
       \/ CmdReverse
       \/ \E b \in MessageBytes : RxMessageByte(b)

Poll == \E fd \in Distances, bd \in Distances : GuardPoll(fd, bd)

\* the controller with each poll of the guard taken as one step
Next ==
    \/ Receive
    \/ Tick
    \/ OvfCheckConnection
    \/ OvfBackReverse
    \/ Poll
    \/ Boot

Spec == Init /\ [][Next]_vars

\* the controller with the main loop interrupted between any two statements of
\* Obstacle_Detection, driven by the commands that move the car
IrqBytes == {FORWARD, BACKWARD, STEER_LEFT}

ReceiveIrq ==
    /\ obs.rxCount < MaxRx
    /\ \/ \E b \in IrqBytes : CmdMotion(b)
       \/ CmdGear(GEARUP)
       \/ CmdReverse

Guard ==
    \/ \E d \in Distances : GuardTestFront(d)
    \/ \E d \in Distances : GuardTestBack(d)
    \/ GuardStop
    \/ GuardTimerOff
    \/ GuardSetFlag
    \/ GuardDrive
    \/ GuardTimerOn
    \/ GuardClearFlag

NextIrq ==
    \/ ReceiveIrq
    \/ Tick
    \/ OvfCheckConnection
    \/ OvfBackReverse
    \/ Guard
    \/ Boot

SpecIrq == Init /\ [][NextIrq]_vars

\* the controller on a clear road: no sensor ever reads less than OBSTACLE_CM, so
\* every poll leaves the state as it is
DriveBytes == {FORWARD, STOP, STEER_LEFT}

ReceiveDrive ==
    /\ obs.rxCount < MaxDriveRx
    /\ \/ \E b \in DriveBytes : CmdMotion(b)
       \/ CmdGear(GEARUP)
       \/ CmdPlain(NOTHING)
       \/ CmdReverse

NextDrive ==
    \/ ReceiveDrive
    \/ Tick
    \/ OvfCheckConnection
    \/ OvfBackReverse
    \/ Boot

SpecDrive == Init /\ [][NextDrive]_vars

\* the operator keeps sending FORWARD, faster than TIMER0 ticks
NextFill == obs.rxCount < MaxFillRx /\ CmdMotion(FORWARD)

SpecFill == Init /\ [][NextFill]_vars

\* the operator keeps sending FORWARD and asks for the return at any point; the
\* replay then unwinds the stack to the reset
NextLong ==
    \/ obs.rxCount < MaxFillRx /\ CmdMotion(FORWARD)
    \/ CmdReverse
    \/ OvfBackReverse
    \/ Boot

SpecLong == Init /\ [][NextLong]_vars

\* the operator sets the car moving and runs through the gears, up and down,
\* within one period of TIMER0
ReceiveGear ==
    /\ obs.rxCount < MaxGearRx
    /\ \/ CmdMotion(FORWARD)
       \/ \E b \in GearBytes : CmdGear(b)

NextGear ==
    \/ ReceiveGear
    \/ Tick

SpecGear == Init /\ [][NextGear]_vars

\* the operator drives forward and uses the display and the buzzer
ReceiveScreen ==
    /\ obs.rxCount < MaxScreenRx
    /\ \/ CmdMotion(FORWARD)
       \/ \E b \in ScreenBytes : CmdPlain(b)
       \/ CmdSendLcd
       \/ \E b \in MessageBytes : RxMessageByte(b)

NextScreen ==
    \/ ReceiveScreen
    \/ Tick
    \/ OvfCheckConnection
    \/ OvfBackReverse
    \/ Boot

SpecScreen == Init /\ [][NextScreen]_vars

\* the controller with the REVERSE case of UART_Get_Cmd taken one statement at
\* a time, on a clear road
EntryBytes == {FORWARD, STEER_LEFT}

ReceiveEntry ==
    /\ obs.rxCount < MaxRx
    /\ \/ \E b \in EntryBytes : CmdMotion(b)
       \/ EntrySave

Entry ==
    \/ EntryStop
    \/ EntryRxOff
    \/ EntryBind
    \/ EntryZero
    \/ EntryPreload

NextEntry ==
    \/ ReceiveEntry
    \/ Entry
    \/ Tick
    \/ OvfCheckConnection
    \/ OvfBackReverse
    \/ Boot

SpecEntry == Init /\ [][NextEntry]_vars

\* the operator drives forward and sends display messages of any length, faster
\* than TIMER0 ticks
NextMsg ==
    /\ obs.rxCount < MaxMsgRx
    /\ \/ CmdMotion(FORWARD)
       \/ CmdSendLcd
       \/ \E b \in MessageBytes : RxMessageByte(b)

SpecMsg == Init /\ [][NextMsg]_vars

\* replay under the scheduling the hardware gives.  TIMER0 counts whenever its
\* clock is on, and a poll lasts two blocking sensor reads, far longer than a
\* timer period: a clock that is on again and again overflows (SF).  A block
\* that stays is polled clear in the end: the main loop comes back from
\* Check_Pass to Obstacle_Detection and the obstacle goes away (WF).
LiveBytes == {FORWARD, BACKWARD}

ReceiveLive ==
    /\ obs.rxCount < MaxRx
    /\ \/ \E b \in LiveBytes : CmdMotion(b)
       \/ CmdReverse

PollClear == GuardPoll(OBSTACLE_CM, OBSTACLE_CM)

NextLive ==
    \/ ReceiveLive
    \/ Tick
    \/ OvfCheckConnection
    \/ OvfBackReverse
    \/ Poll
    \/ Boot

SpecLive ==
    /\ Init
    /\ [][NextLive]_vars
    /\ WF_vars(PollClear)
    /\ SF_vars(OvfBackReverse)

\* the same controller and commands with no assumption on the scheduling
SpecRoad == Init /\ [][NextLive]_vars

(* ------------------------------ properties ------------------------------ *)
\* C1 -- round-trip count and order: when the replay ends in the reset, it has
\* applied one motion per pushed record, N = obs.pushes of them, in the reverse
\* of push order (slots N-1, N-2, ..., 0), whatever the last command was.
C1_RoundTrip ==
    mcu = "reset" =>
        obs.replayLog = [k \in 1..obs.pushes |-> obs.pushes - k]

\* a run that ends in the reset with one record pushed and no motion applied
C1_RecordSkipped ==
    /\ mcu = "reset"
    /\ obs.pushes = 1
    /\ obs.replayLog = <<>>
    /\ obs.motion = STOP

\* C2 -- replay duration: the ticks TIMER0 counts between the replay step that
\* pops a record and the next replay step that fires equal the duration the
\* record states, ovfs * 256 + tcnt, to within one tick.
C2_ReplayDuration ==
    /\ obs.lastLeg[2] - obs.lastLeg[1] <= 1
    /\ obs.lastLeg[1] - obs.lastLeg[2] <= 1

\* a leg recorded as one overflow and half a period, replayed for half a period
C2_LegCutShort == obs.lastLeg = <<Uint8 + TickStep, Uint8 - TickStep>>

\* C3 -- direction inversion: every written slot of the stack holds, in its
\* 3-bit mode field, the code of exactly one motion, and that motion is the
\* inverse of the commanded motion the record superseded.
InverseMotion(b) ==
    IF b = FORWARD THEN BACKWARD
    ELSE IF b = BACKWARD THEN FORWARD
    ELSE IF b = STEER_LEFT THEN STEER_RIGHT
    ELSE IF b = STEER_RIGHT THEN STEER_LEFT
    ELSE STOP

StoredMotions(r) == {b \in MotionBytes : b % ModeBits = r.mode}

C3_DirectionInversion ==
    /\ Len(obs.pushedFor) = Len(stack)
    /\ \A i \in 1..Len(stack) :
           StoredMotions(stack[i]) = {InverseMotion(obs.pushedFor[i])}

\* two records, the second pushed by the link loss for a left turn
C3_TwoRecords ==
    /\ Replaying
    /\ obs.rxCount = 2
    /\ obs.evalInfo = "quietLost"
    /\ obs.pushedFor = <<FORWARD, STEER_LEFT>>
    /\ Len(stack) = 2
    /\ stack[2].mode = STEER_RIGHT % ModeBits

\* C4 -- heartbeat liveness: an evaluation that ends a window in which no
\* command byte was dispatched enters Replaying, whatever the last command.
C4_HeartbeatLiveness == obs.evalInfo # "quietKept"

\* the car drives forward, the last byte was SEND_LCD, a silent window ended and
\* the controller is still in Remote mode
C4_SilentRunaway ==
    /\ obs.evalInfo = "quietKept"
    /\ command = SEND_LCD
    /\ motor = "forward"
    /\ Remote

\* C5 -- heartbeat idempotence: an evaluation that ends a window in which
\* UART_Get_Cmd dispatched at least one byte never declares the link lost.
C5_HeartbeatIdempotent == obs.evalInfo # "busyLost"

\* a window with a dispatched motion command was evaluated and the link kept
C5_BusyWindowKept ==
    /\ obs.evalInfo = "busyKept"
    /\ command = FORWARD
    /\ ~car_connected
    /\ Remote

\* C6 -- obstacle auto-stop in Remote mode: a poll that finds the car driving
\* forward (backward) with the front (back) sensor under OBSTACLE_CM and the
\* flag of that side clear leaves the car stopped, the clock off, the flag set.
C6_AutoStop ==
    [][\A fd \in Distances, bd \in Distances :
          (GuardPoll(fd, bd) /\ Remote) =>
              /\ (motor = "forward" /\ fd < OBSTACLE_CM /\ ~front_blocked)
                     => (motor' = "stop" /\ ~timerOn' /\ front_blocked')
              /\ (motor = "backward" /\ bd < OBSTACLE_CM /\ ~back_blocked)
                     => (motor' = "stop" /\ ~timerOn' /\ back_blocked')]_vars

\* the car drives forward in Remote mode and the last byte was a gear change
C6_GuardBlind ==
    /\ Remote
    /\ motor = "forward"
    /\ command = GEARUP
    /\ ~front_blocked
    /\ timerOn

\* C7 -- obstacle time-neutrality: TIMER0 counts no tick and no overflow while
\* front_blocked or back_blocked is set.
C7_TimeNeutral ==
    [][(Tick \/ OvfCheckConnection \/ OvfBackReverse)
          => ~(front_blocked \/ back_blocked)]_vars

\* the back is still blocked and the clock runs
C7_ClockOnWhileBlocked ==
    /\ back_blocked
    /\ ~front_blocked
    /\ timerOn
    /\ Running

\* C8 -- stack bound: the stack size is the number of pushes up to MAX_MOVES
\* and stays MAX_MOVES for every push after that.
C8_StackBound ==
    top = IF obs.pushes <= MAX_MOVES THEN obs.pushes ELSE MAX_MOVES

\* Uint8 pushes leave the stack empty
C8_TopWrapped == obs.pushes = Uint8 /\ top = 0

\* C9 -- Replaying is absorbing: from the entry until the reset the overflow
\* handler stays Back_Reverse, the entry actions do not run again and no byte
\* is received.
C9_ReplayAbsorbing ==
    [][(Replaying /\ Running) =>
          /\ Replaying'
          /\ obs'.entries = obs.entries
          /\ obs'.rxCount = obs.rxCount]_vars

\* the replay has popped a record after its one entry
C9_ReplayUnderWay ==
    /\ Replaying
    /\ Running
    /\ obs.entries = 1
    /\ Len(obs.replayLog) = 1
    /\ top = 0

\* C10 -- replay terminates: once Replaying is entered the controller reaches the
\* replay step with the stack empty, stops the car and triggers the reset.
C10_ReplayTerminates == Replaying ~> (mcu = "reset" /\ motor = "stop" /\ top = 0)

\* a replay of at least one record has ended in the reset
C10_ReplayEnded ==
    /\ mcu = "reset"
    /\ obs.entryTop >= 1
    /\ Len(obs.replayLog) = obs.entryTop

\* C11 -- obstacle resume: a poll that clears the blocked flag of one side (and
\* does nothing on the other side) drives the motion the actuator was driving
\* when that flag was set, and leaves the TIMER0 clock on.
C11_ResumeMotion ==
    [][\A fd \in Distances, bd \in Distances :
          GuardPoll(fd, bd) =>
              /\ (front_blocked /\ ~front_blocked' /\ back_blocked' = back_blocked)
                     => (motor' = obs.frontWas /\ timerOn')
              /\ (back_blocked /\ ~back_blocked' /\ front_blocked' = front_blocked)
                     => (motor' = obs.backWas /\ timerOn')]_vars

\* a replay leg that drove backward was paused by the front sensor and resumed
\* forward
C11_ResumedForward ==
    /\ Replaying
    /\ Running
    /\ obs.legOpen
    /\ motor = "forward"
    /\ ~front_blocked
    /\ ~back_blocked

\* C12 -- unknown command byte: dispatching a byte that is none of the defined
\* commands changes neither the stack, top, the gear, reversed_mode, command,
\* the alive flag, the actuator nor TIMER0.
C12_UnknownIgnored ==
    [][CmdPlain(TextByte) =>
          UNCHANGED <<stack, top, gear, reversed_mode, command, car_connected,
                      motor, OCR2, TCNT0, g_TIMER0_Overflow, timerOn>>]_vars

\* the car drives forward and the last-command variable holds the unknown byte
C12_UnknownKept ==
    /\ command = TextByte
    /\ motor = "forward"
    /\ car_connected
    /\ Remote

\* C13 -- the replay step drives the record literally: a replay step that pops
\* and loads a record commands the actuator with the motion whose code the
\* record's mode field holds, and sets the speed register to 51 * record.gear.
C13_LiteralMode ==
    [][(OvfBackReverse /\ top' = top - 1 /\ ReplayApplies(reversed_mode)) =>
          LET r == StackRead(stack, top - 1) IN
          /\ \E b \in StoredMotions(r) : motor' = MotorFor(b)
          /\ OCR2' = SpeedFor(r.gear)]_vars

\* the record stored as BACKWARD is being replayed with the motors stopped
C13_BackwardLegStopped ==
    /\ Replaying
    /\ Running
    /\ obs.legOpen
    /\ obs.replayLog = <<0>>
    /\ stack[1].mode = BACKWARD % ModeBits
    /\ motor = "stop"
    /\ obs.frontWas = "none"
    /\ obs.backWas = "none"

\* C14 -- obstacle auto-stop during Replaying: a poll that finds a replay leg
\* driving forward (backward) with the front (back) sensor under OBSTACLE_CM and
\* the flag of that side clear leaves the car stopped, the clock off, the flag
\* set.
C14_ReplayAutoStop ==
    [][\A fd \in Distances, bd \in Distances :
          (GuardPoll(fd, bd) /\ Replaying /\ obs.legOpen) =>
              /\ (motor = "forward" /\ fd < OBSTACLE_CM /\ ~front_blocked)
                     => (motor' = "stop" /\ ~timerOn' /\ front_blocked')
              /\ (motor = "backward" /\ bd < OBSTACLE_CM /\ ~back_blocked)
                     => (motor' = "stop" /\ ~timerOn' /\ back_blocked')]_vars

\* a replay leg drives backward while the guard tests neither sensor
C14_LegUnguarded ==
    /\ Replaying
    /\ Running
    /\ obs.legOpen
    /\ motor = "backward"
    /\ reversed_mode = STEER_RIGHT
    /\ ~back_blocked
    /\ timerOn

\* C15 -- recorded duration is exact: the duration every written slot states,
\* ovfs * 256 + tcnt, equals to within one tick the ticks TIMER0 counted between
\* the previous Save_Move and the Save_Move that pushed it.
C15_RecordedDuration ==
    \A i \in 1..Len(stack) :
        i <= Len(obs.actualFor) =>
            /\ RecordTicks(stack[i]) - obs.actualFor[i] <= 1
            /\ obs.actualFor[i] - RecordTicks(stack[i]) <= 1

\* a motion that spanned one heartbeat evaluation, recorded with the preload of
\* TCNT0 on top of the two overflows counted
C15_PreloadRecorded ==
    /\ Remote
    /\ Len(stack) = 1
    /\ obs.actualFor = <<WindowOvfs * Uint8>>
    /\ stack[1].ovfs = WindowOvfs
    /\ stack[1].tcnt = WindowTcnt

\* C16 -- entry into Replaying: when the first replay step runs, the actuator is
\* stopped, reception is disabled, the handler is the replay step and the step
\* budget is zero; if a motion was in flight at the entry, its record is on top
\* of the stack and this step pops it.
C16_EntryHandover ==
    [][(OvfBackReverse /\ top = obs.entryTop) =>
          /\ motor = "stop"
          /\ ~rxEnabled
          /\ Replaying
          /\ ovfCounts = 0
          /\ reversed_mode # STOP =>
                 /\ top >= 1
                 /\ obs.pushedFor[top] = obs.motion
                 /\ top' = top - 1
                 /\ mcu' = "run"]_vars

\* the entry pushed the record of the motion in flight into the last slot a
\* uint8 can index, and the first replay step found the stack empty
C16_EntryRecordLost ==
    /\ mcu = "reset"
    /\ obs.entries = 1
    /\ obs.pushes = Uint8
    /\ obs.entryTop = 0
    /\ obs.replayLog = <<>>

\* C17 -- each window needs fresh evidence: every heartbeat evaluation that
\* leaves the controller in Remote mode leaves the alive flag false.
C17_FreshEvidence ==
    [][(OvfCheckConnection /\ WindowEnds((ccCounter + 1) % Uint16, ovfCounts)
            /\ Remote') => ~car_connected']_vars

\* one STOP byte, a silent window evaluated since, and the alive flag is set
C17_StopCoversAll ==
    /\ Remote
    /\ obs.rxCount = 1
    /\ command = STOP
    /\ obs.evalInfo = "quietKept"
    /\ car_connected

\* C18 -- reset only at the end of an unwind: the device reset is triggered only
\* by a replay step that finds top = 0, and that step has commanded the actuator
\* to stop.
C18_ResetOnlyWhenEmpty ==
    [][(mcu = "run" /\ mcu' = "reset") =>
          /\ OvfBackReverse
          /\ Replaying
          /\ top = 0
          /\ motor' = "stop"]_vars

\* two records were pushed and unwound before the reset
C18_UnwoundThenReset ==
    /\ mcu = "reset"
    /\ motor = "stop"
    /\ top = 0
    /\ Len(stack) = 2
    /\ obs.entryTop = 2

\* C19 -- capacity invariant: top is at most MAX_MOVES in every reachable state
\* and every slot of the stack that was written has an index below MAX_MOVES.
C19_Capacity ==
    /\ top <= MAX_MOVES
    /\ Len(stack) <= MAX_MOVES

\* one push more than MAX_MOVES has been made
C19_PastCapacity ==
    /\ Remote
    /\ obs.pushes = MAX_MOVES + 1
    /\ top = MAX_MOVES + 1 - Uint8
    /\ Len(stack) = Uint8

\* C20 -- the stack shrinks only by replay: in Remote mode top never decreases;
\* a replay step that fires with top > 0 decreases it by exactly one; nothing
\* but a replay step or the reset decreases it.
C20_ShrinksOnlyByReplay ==
    [][/\ (Remote /\ Running /\ mcu' = "run") => top' >= top
       /\ (OvfBackReverse /\ top > 0
              /\ ~StepWaits((brCounter + 1) % Uint16, ovfCounts)) => top' = top - 1
       /\ top' < top => (OvfBackReverse \/ Boot)]_vars

\* still in Remote mode, one push after the size fell back to zero
C20_ShrunkInRemote ==
    /\ Remote
    /\ Running
    /\ obs.pushes = Uint8 + 1
    /\ top = 1
    /\ Len(stack) = Uint8

\* C21 -- every motion command is recorded: in Remote mode with top below
\* MAX_MOVES, each dispatched motion command increases top by exactly one and
\* writes the record of the motion it supersedes, STOP included.
C21_MotionRecorded ==
    [][\A b \in MotionBytes :
          (CmdMotion(b) /\ Remote /\ top < MAX_MOVES) =>
              /\ top' = top + 1
              /\ Len(obs'.pushedFor) >= top'
              /\ obs'.pushedFor[top'] = obs.motion]_vars

\* the first command after boot has set the car moving and the stack is empty
C21_FirstMotionUnrecorded ==
    /\ Remote
    /\ Running
    /\ obs.rxCount = 1
    /\ command = FORWARD
    /\ motor = "forward"
    /\ obs.motion = FORWARD
    /\ top = 0
    /\ stack = <<>>

\* C22 -- gear clamp: gear is within MIN_GEAR..MAX_GEAR in every reachable
\* state, and a GEARUP at MAX_GEAR or a GEARDOWN at MIN_GEAR changes neither
\* gear, the speed register, the stack, top nor TIMER0's count and overflows.
C22_GearClamp ==
    /\ [](gear \in MIN_GEAR..MAX_GEAR)
    /\ [][((CmdGear(GEARUP) /\ gear = MAX_GEAR) \/ (CmdGear(GEARDOWN) /\ gear = MIN_GEAR))
             => UNCHANGED <<gear, OCR2, stack, top, TCNT0, g_TIMER0_Overflow>>]_vars

\* the car drives in top gear and one GEARUP more than the gears has been sent
C22_ClampedAtTop ==
    /\ Remote
    /\ gear = MAX_GEAR
    /\ OCR2 = SpeedFor(MAX_GEAR)
    /\ command = GEARUP
    /\ motor = "forward"
    /\ top = MAX_GEAR - MIN_GEAR
    /\ obs.rxCount = MAX_GEAR - MIN_GEAR + 2

\* C23 -- gear change is recorded: in Remote mode with top below MAX_MOVES, a
\* GEARUP or GEARDOWN that changes the gear pushes exactly one record and sets
\* the speed register to 51 * the new gear, whatever the current motion is.
C23_GearRecorded ==
    [][\A b \in GearBytes :
          (CmdGear(b) /\ GearChanges(b, gear) /\ Remote /\ top < MAX_MOVES) =>
              /\ top' = top + 1
              /\ Len(stack') >= top'
              /\ OCR2' = SPEED_STEP * gear']_vars

\* the stopped car was shifted into second gear and the stack is empty
C23_ShiftUnrecorded ==
    /\ Remote
    /\ Running
    /\ obs.rxCount = 1
    /\ command = GEARUP
    /\ gear = MIN_GEAR + 1
    /\ OCR2 = SPEED_STEP * (MIN_GEAR + 1)
    /\ motor = "stop"
    /\ top = 0
    /\ stack = <<>>

\* C24 -- non-motion commands do not touch the history: dispatching CLR_SCREEN,
\* SEND_LCD, BUZZER_ON or BUZZER_OFF leaves the stack, top, gear, reversed_mode,
\* TIMER0's count and overflow counter and the actuator unchanged.
C24_HistoryUntouched ==
    [][((\E b \in ScreenBytes : CmdPlain(b)) \/ CmdSendLcd) =>
          UNCHANGED <<stack, top, gear, reversed_mode, TCNT0, g_TIMER0_Overflow,
                      motor, OCR2>>]_vars

\* the car drives forward, one record is on the stack, TIMER0 has counted one
\* overflow and half a period, and the last byte cleared the display
C24_ScreenWhileDriving ==
    /\ Remote
    /\ command = CLR_SCREEN
    /\ motor = "forward"
    /\ reversed_mode = BACKWARD
    /\ top = 1
    /\ TCNT0 = TickStep
    /\ g_TIMER0_Overflow = 1
    /\ obs.rxCount = 3

\* C25 -- frame of the obstacle guard: no execution of Obstacle_Detection, whole
\* or statement by statement, changes the stack, top, gear, command,
\* reversed_mode, the overflow budget, the step counters, TIMER0's count and
\* overflow counter, the overflow handler, the alive flag, the speed register
\* or the receive side; it changes only the blocked flags, the TIMER0 clock and
\* the actuator.
C25_GuardFrame ==
    [][(Poll \/ Guard) =>
          UNCHANGED <<appVars, TCNT0, g_TIMER0_Overflow, g_TIMER0_OVF_CallBack,
                      ccCounter, brCounter, uartVars, OCR2, mcu>>]_vars

\* a replay leg was paused by the front sensor half a period into its budget and
\* resumed
C25_LegPausedAndResumed ==
    /\ Replaying
    /\ Running
    /\ obs.legOpen
    /\ obs.frontWas = "none"
    /\ motor = "forward"
    /\ timerOn
    /\ ~front_blocked
    /\ TCNT0 = TickStep
    /\ Len(obs.replayLog) = 1

\* C26 -- the guard's pause and resume are critical sections: between the test
\* that decides a pause or a resume and the last of its three statements no
\* command-received handler and no TIMER0 overflow handler runs.
C26_GuardAtomic ==
    [][(ReceiveIrq \/ OvfCheckConnection \/ OvfBackReverse) =>
          pc \in {"idle", "back"}]_vars

\* the guard decided to pause a forward drive, a left turn was commanded before
\* its MOTOR_BothStop ran, and the pause was then applied to the turn: the car
\* stands with the clock off and the front flag set while the command is a turn
C26_PauseOnStaleCommand ==
    /\ Remote
    /\ Running
    /\ pc = "idle"
    /\ obs.rxCount = 2
    /\ command = STEER_LEFT
    /\ motor = "stop"
    /\ front_blocked
    /\ ~timerOn
    /\ top = 1

\* C27 -- atomic handler rebinding: no TIMER0 overflow handler runs between the
\* first and the last statement of the entry into the replay; the watchdog
\* always runs with the heartbeat window in ovfCounts, and a replay step runs
\* with the budget the entry zeroed or with the budget of the record it loaded.
C27_AtomicRebind ==
    [][/\ (OvfCheckConnection \/ OvfBackReverse) => isr = "none"
       /\ OvfCheckConnection => ovfCounts = WindowOvfs
       /\ OvfBackReverse => (ovfCounts = 0 \/ obs.legOpen)]_vars

\* the entry has run to its last statement while TIMER0 was half a period from
\* its overflow, and the first replay step has popped the record it pushed
C27_EnteredMidPeriod ==
    /\ Replaying
    /\ Running
    /\ isr = "none"
    /\ obs.entries = 1
    /\ obs.entryTop = 1
    /\ stack[1].tcnt = TickStep
    /\ obs.replayLog = <<0>>
    /\ top = 0

C29_PackingLossless ==
    /\ Len(obs.wrote) = Len(stack)
    /\ \A i \in 1..Len(stack) :
           /\ obs.wrote[i].mode \in MotionBytes
           /\ stack[i] = obs.wrote[i]

\* Save_Move assigned BACKWARD, gear 2, one overflow and half a period to slot 0,
\* which reads back mode 2 with the other fields as assigned
C29_ModeTruncated ==
    /\ Len(stack) = 1
    /\ obs.wrote = <<RawRecord(BACKWARD, MIN_GEAR + 1, 1, TickStep)>>
    /\ stack[1] = [mode |-> BACKWARD % ModeBits, gear |-> MIN_GEAR + 1,
                   ovfs |-> 1, tcnt |-> TickStep]

\* the fields other than mode read back as assigned
C29_OtherFieldsKept ==
    /\ Len(obs.wrote) = Len(stack)
    /\ \A i \in 1..Len(stack) :
           /\ stack[i].gear = obs.wrote[i].gear
           /\ stack[i].ovfs = obs.wrote[i].ovfs
           /\ stack[i].tcnt = obs.wrote[i].tcnt
           /\ stack[i].mode = obs.wrote[i].mode % ModeBits

\* C30 -- no driving into a detected obstacle: in every reachable state the
\* actuator is not driving forward while front_blocked is set and not driving
\* backward while back_blocked is set.
C30_NoDriveIntoObstacle ==
    /\ front_blocked => motor # "forward"
    /\ back_blocked => motor # "backward"

\* the guard has paused a forward drive and a second FORWARD has set the car
\* moving again with the front flag still set and the clock off
C30_DrivingWhileBlocked ==
    /\ Remote
    /\ Running
    /\ front_blocked
    /\ ~timerOn
    /\ command = FORWARD
    /\ motor = "forward"
    /\ obs.rxCount = 2
    /\ obs.frontWas = "forward"

\* C31 -- the operator's last motion command is never overridden: in Remote mode,
\* in every state where neither blocked flag is set, the actuator applies the
\* motion of the most recently dispatched motion command (STOP at boot).
C31_LastMotionKept ==
    (Remote /\ Running /\ ~front_blocked /\ ~back_blocked)
        => motor = MotorFor(obs.motion)

\* STOP was commanded while the guard had the car paused, and the guard's resume
\* has set the car driving forward
C31_ResumeOverridesStop ==
    /\ Remote
    /\ Running
    /\ ~front_blocked
    /\ ~back_blocked
    /\ timerOn
    /\ obs.rxCount = 2
    /\ obs.motion = STOP
    /\ command = STOP
    /\ motor = "forward"

\* C32 -- recorded gear is the gear driven: every pushed record's gear field
\* equals the gear that was in effect during the interval whose duration the
\* record holds, also for the record pushed by a GEARUP or GEARDOWN. Every gear
\* change calls Save_Move, which closes the interval, so the gear in effect
\* during the interval is the gear held when the pushing step begins.
C32_GearDriven ==
    [][(SaveMovePushes(reversed_mode, top) /\ top' = TopAfterSave
            /\ obs'.pushes = obs.pushes + 1) =>
          StackRead(stack', top).gear = gear]_vars

\* the car drove forward in first gear until GEARUP, and the record of that
\* interval holds second gear
C32_ShiftedGearRecorded ==
    /\ Remote
    /\ Running
    /\ obs.rxCount = 2
    /\ command = GEARUP
    /\ motor = "forward"
    /\ gear = MIN_GEAR + 1
    /\ top = 1
    /\ obs.pushedFor = <<FORWARD>>
    /\ StackRead(obs.wrote, 0).mode = BACKWARD
    /\ StackRead(stack, 0).gear = MIN_GEAR + 1

\* the operator drives forward and backward and may ask for the replay, while the
\* main loop is interrupted between any two statements of Obstacle_Detection
ReceivePause ==
    /\ obs.rxCount < MaxPauseRx
    /\ \/ \E b \in LiveBytes : CmdMotion(b)
       \/ CmdReverse

NextPause ==
    \/ ReceivePause
    \/ Tick
    \/ OvfCheckConnection
    \/ OvfBackReverse
    \/ Guard
    \/ Boot

SpecPause == Init /\ [][NextPause]_vars

\* C33 -- the clock is never left frozen: in every reachable state in which both
\* front_blocked and back_blocked are false and the guard is not in the middle
\* of a pause, TIMER0 is counting, so the heartbeat watchdog and the replay can
\* be stalled only while a blocked flag is set.
C33_MidPause == pc \in {"fOff", "fSet", "bOff", "bSet"}

C33_ClockNeverFrozen ==
    (~front_blocked /\ ~back_blocked /\ ~C33_MidPause) => timerOn

\* the guard paused the car driving forward, BACKWARD was commanded, and the
\* guard has just resumed the front side: both flags are clear, the poll is at
\* its back half and TIMER0 counts again
C33_ClockBackOn ==
    /\ Running
    /\ Remote
    /\ ~front_blocked
    /\ ~back_blocked
    /\ pc = "back"
    /\ command = BACKWARD
    /\ motor = "forward"
    /\ obs.rxCount = 2
    /\ timerOn

\* UART.c:880-899 -- the indices of g_UART_RX_Array that one run of the receive
\* handler stores to, entered with g_UART_RX_Index = i0 for an array of the given
\* size: the byte at i0 and, when the byte is the stop byte, a second copy at i0 + 1
RxWrites(i0, size, b) ==
    {i0} \cup (IF ((i0 + 1 >= size) \/ (b = UART_STOPCHAR)) /\ b = UART_STOPCHAR
               THEN {i0 + 1}
               ELSE {})

BufferIndices == 0 .. (RX_BUFFER_SIZE - 1)

\* C34 -- receive buffer bounds: in command mode (size 1) and in message mode
\* (size 34), both on the 34-byte uart_rx_buffer with stop byte ':', the receive
\* handler never stores at an index outside 0..33, whatever bytes arrive,
\* including a stop byte arriving as byte 34 of a message.
C34_ReceiveInBounds ==
    [][/\ \A b \in MessageBytes :
             RxMessageByte(b) =>
                 RxWrites(g_UART_RX_Index, LCD_MSG_SIZE, b) \subseteq BufferIndices
       /\ (CmdMotion(FORWARD) \/ CmdSendLcd) =>
             \A b \in MotionBytes \cup MessageBytes \cup {SEND_LCD} :
                 RxWrites(g_UART_RX_Index, CMD_SIZE, b) \subseteq BufferIndices]_vars

\* 33 text bytes followed SEND_LCD and the stop byte came as byte 34: its second
\* copy was stored at index 34, behind the buffer
C34_StoredPastBuffer ==
    /\ obs.overrun = RX_BUFFER_SIZE
    /\ obs.rxCount = LCD_MSG_SIZE + 1
    /\ command = SEND_LCD
    /\ g_UART_RX_Index = 0
    /\ mcu = "run"
    /\ g_UART_RXCallBack = "UART_Get_Cmd"

====
